---- MODULE Spec2Model ----
(***************************************************************************)
(* Medusir 3.2 backend predictive engine (src/backend.js) as a state       *)
(* machine: the instrument registry, the tick handler, the deferred        *)
(* evaluation scheduled with setTimeout, the adaptive learner and the      *)
(* weights file.                                                           *)
(*                                                                         *)
(* Number representation.  JavaScript numbers are modelled in fixed point: *)
(*   prices and the Kalman estimate in units of 1/10000,                   *)
(*   the Kalman covariance in units of 1/10000,                            *)
(*   weights in units of 1/100 (1.0 is 100, adj = 0.05 is 5),              *)
(*   model scores in units of 1/1000, fused scores in units of 1/100000.   *)
(* Finite numbers stay below 10^9 in magnitude; NaN, Infinity, -Infinity   *)
(* and null are four codes above that range.                               *)
(***************************************************************************)
EXTENDS Integers, Sequences, FiniteSets, TLC

\* ------------------------------------------------------------ configuration

\* Keys of VOLATILITY_INDEXES (two of the five subscribed symbols).
Symbols == {"1HZ100V", "1HZ75V"}

ANALYSIS_TICKS == 100
STABILITY_ANALYSIS_TICKS == 150
\* KALMAN_R = 0.01 and KALMAN_Q = 0.1 in units of 1/10000.
KALMAN_R == 100
KALMAN_Q == 1000
\* CERTAINTY_THRESHOLD = 1.5 as the fraction CertaintyNum / CertaintyDen.
CertaintyNum == 3
CertaintyDen == 2
\* INITIAL_WEIGHTS = { ldf: 1.0, recency: 1.0, pf: 1.0 }
INITIAL_WEIGHTS == [ldf |-> 100, recency |-> 100, pf |-> 100]

Models == <<"ldf", "recency", "pf">>
Digits == 0..9

\* ------------------------------------------------------------ JS numbers

NaN == 2 * 1000000000 + 1
Infinity == 2 * 1000000000 + 2
NegInfinity == 2 * 1000000000 + 3
null == 2 * 1000000000 + 4

IsFinite(v) == v < NaN

\* -v on JavaScript numbers.
Negate(v) ==
    IF IsFinite(v) THEN 0 - v
    ELSE IF v = Infinity THEN NegInfinity
    ELSE IF v = NegInfinity THEN Infinity
    ELSE NaN

\* a + b on JavaScript numbers.
Plus(a, b) ==
    IF IsFinite(a) /\ IsFinite(b) THEN a + b
    ELSE IF IsFinite(a) THEN b
    ELSE IF IsFinite(b) THEN a
    ELSE IF a = NaN \/ b = NaN THEN NaN
    ELSE IF a = b THEN a
    ELSE NaN

\* ------------------------------------------------------------ digits

\* price.toFixed(2).slice(-1): the last character of the two-decimal string.
LastChar(price) ==
    IF IsFinite(price)
        THEN <<"0", "1", "2", "3", "4", "5", "6", "7", "8", "9">>[(((price + 50) \div 100) % 10) + 1]
    ELSE IF price = NaN THEN "N"
    ELSE "y"

\* parseInt(price.toFixed(2).slice(-1))
LastDigit(price) ==
    IF IsFinite(price) THEN ((price + 50) \div 100) % 10 ELSE NaN

\* ------------------------------------------------------------ helpers

RECURSIVE SumTo(_, _)
SumTo(f, n) == IF n = 0 THEN 0 ELSE f[n] + SumTo(f, n - 1)

MaxOf(S) == CHOOSE m \in S : \A x \in S : x <= m

\* digits.slice(-n)
SliceLast(s, n) ==
    IF Len(s) <= n THEN s ELSE SubSeq(s, Len(s) - n + 1, Len(s))

\* ------------------------------------------------------------ scoring models

\* A JavaScript array of n elements as a sequence, evaluated once: the
\* element at index i is held at position i + 1.
Array(f) == f \o <<>>
At(array, d) == array[d + 1]

\* The largest element of a 10-element array.
MaxOfArray(array) == MaxOf({array[k] : k \in 1..10})

\* The counts scored directly: the most frequent digit scores highest.
getLDFScoresByCount(digits) ==
    Array([k \in 1..10 |->
        Cardinality({i \in DOMAIN digits : digits[i] = k - 1}) * 1500])

getLDFScores(digits) ==
    LET counts == Array([k \in 1..10 |->
                      Cardinality({i \in DOMAIN digits : digits[i] = k - 1})])
        maxCount == MaxOfArray(counts)
    IN  Array([k \in 1..10 |-> (maxCount - counts[k]) * 1500])

\* digits.lastIndexOf(d) as a 1-based position, 0 when absent.
LastIndexOf(digits, d) ==
    LET at == {i \in DOMAIN digits : digits[i] = d}
    IN  IF at = {} THEN 0 ELSE MaxOf(at)

\* An absent digit scored with the length of the window.
getRecencyScoresByLength(digits) ==
    Array([k \in 1..10 |-> (Len(digits) - LastIndexOf(digits, k - 1)) * 1000])

getRecencyScores(digits) ==
    Array([k \in 1..10 |->
        LET lastSeen == LastIndexOf(digits, k - 1)
        IN  IF lastSeen = 0 THEN ANALYSIS_TICKS * 1000
            ELSE (Len(digits) - lastSeen) * 1000])

\* The transition counts scaled without the division by their maximum.
getPairingFrequencyCounts(digits) ==
    Array([k \in 1..10 |->
        Cardinality({i \in 1..(Len(digits) - 1) :
            digits[i] = digits[Len(digits)] /\ digits[i + 1] = k - 1}) * 30000])

\* NaN === NaN is false: a NaN last digit counts no transition.
getPairingFrequencyScores(digits) ==
    LET n == Len(digits)
        last == digits[n]
        transitions == Array([k \in 1..10 |->
            Cardinality({i \in 1..(n - 1) :
                IsFinite(last) /\ digits[i] = last /\ digits[i + 1] = k - 1})])
        maxTransition == MaxOfArray(transitions)
        denom == IF maxTransition = 0 THEN 1 ELSE maxTransition
    IN  Array([k \in 1..10 |-> (transitions[k] * 30000 + denom \div 2) \div denom])

\* stdDev < 2.85 on the last 30 digits, as variance < 8.1225:
\* n * sum(x^2) - sum(x)^2 < 8.1225 * n^2.  A NaN digit makes stdDev NaN and
\* the comparison false.
getVolatilityCheck(digits) ==
    LET slice == SliceLast(digits, 30)
        n == Len(slice)
    IN  IF \E i \in 1..n : ~IsFinite(slice[i]) THEN FALSE
        ELSE LET sum == SumTo(slice, n)
                 squares == SumTo([i \in 1..n |-> slice[i] * slice[i]], n)
             IN  (n * squares - sum * sum) * 10000 < 81225 * n * n

\* ------------------------------------------------------------ smoother

\* kalmanUpdate(state, z): the new state; the function returns its x.
\* K = p_pred / (p_pred + KALMAN_Q), (1 - K) * p_pred = KALMAN_Q * p_pred /
\* (p_pred + KALMAN_Q); quotients are rounded to the nearest unit.
kalmanUpdate(state, z) ==
    LET x0 == IF state.x = null THEN z ELSE state.x
        p_pred == state.p + KALMAN_R
        den == p_pred + KALMAN_Q
        step == Plus(z, Negate(x0))
        scaled == IF IsFinite(step) THEN (p_pred * step + den \div 2) \div den ELSE step
    IN  [x |-> Plus(x0, scaled), p |-> (KALMAN_Q * p_pred + den \div 2) \div den]

\* ------------------------------------------------------------ fusion

\* The first position of S holding a maximal entry of f: the head of a stable
\* descending sort of those entries.
FirstMax(f, S) ==
    CHOOSE d \in S : /\ \A e \in S : f[e] <= f[d]
                     /\ \A e \in S : f[e] = f[d] => d <= e

\* [...].sort((a, b) => b.score - a.score) on the three models, as the
\* sequence of positions 1..3 (ldf, recency, pf) in sorted order; the sort is
\* stable, so equal scores keep the order ldf, recency, pf.
RankModels(score) ==
    LET a == score[1]
        b == score[2]
        c == score[3]
    IN  IF a >= b /\ a >= c THEN (IF b >= c THEN <<1, 2, 3>> ELSE <<1, 3, 2>>)
        ELSE IF b >= c THEN (IF a >= c THEN <<2, 1, 3>> ELSE <<2, 3, 1>>)
        ELSE (IF a >= b THEN <<3, 1, 2>> ELSE <<3, 2, 1>>)

UpperName(m) ==
    IF m = "ldf" THEN "LDF" ELSE IF m = "recency" THEN "RECENCY" ELSE "PF"

Min(a, b) == IF a <= b THEN a ELSE b
Max(a, b) == IF a >= b THEN a ELSE b

\* The history test one tick too short.
CalibratingOffByOne(instrument) == Len(instrument.priceHistory) < ANALYSIS_TICKS - 1

\* instrument.priceHistory.length < ANALYSIS_TICKS
Calibrating(instrument) == Len(instrument.priceHistory) < ANALYSIS_TICKS

getAIProbabilityPrediction(instrument) ==
    IF Calibrating(instrument)
        THEN [signal |-> "HOLD", reason |-> "Calibrating..."]
    ELSE
    LET n == Len(instrument.priceHistory)
        lastDigits == Array([i \in 1..n |-> LastDigit(instrument.priceHistory[i])])
    IN  IF ~getVolatilityCheck(lastDigits)
            THEN [signal |-> "HOLD", reason |-> "Market too volatile"]
        ELSE
        LET ldfScores == getLDFScores(lastDigits)
            recencyScores == getRecencyScores(lastDigits)
            pfScores == getPairingFrequencyScores(lastDigits)
            finalScores == Array([k \in 1..10 |->
                  ldfScores[k] * instrument.weights.ldf
                + recencyScores[k] * instrument.weights.recency
                + pfScores[k] * instrument.weights.pf])
            best == FirstMax(finalScores, 1..10)
            runnerUp == FirstMax(finalScores, (1..10) \ {best})
        IN  IF CertaintyDen * finalScores[best] > CertaintyNum * finalScores[runnerUp]
                THEN LET atBest == <<ldfScores[best], recencyScores[best], pfScores[best]>>
                         rank == RankModels(atBest)
                     IN  [signal |-> "CONFIRMED",
                          digit |-> best - 1,
                          confidence |-> Min(99, 50 +
                              ((finalScores[best] - finalScores[runnerUp]) * 2) \div 100000),
                          topModels |-> <<UpperName(Models[rank[1]]), UpperName(Models[rank[2]])>>,
                          modelScores |-> [ldf |-> ldfScores, recency |-> recencyScores,
                                           pf |-> pfScores]]
            ELSE [signal |-> "HOLD", reason |-> "No High-Certainty Signal"]

\* ------------------------------------------------------------ adaptive learner

\* activeSignal: null
NoSignal == [present |-> FALSE]

\* Clamp without its lower bound.
ClampUpperOnly(w) == Min(200, w)

\* Math.max(0.5, Math.min(2.0, w))
Clamp(w) == Max(50, Min(200, w))

\* modelScores[m][digit] for the three models in the order ldf, recency, pf;
\* a NaN digit indexes nothing: every score is undefined and the comparator
\* yields NaN, which leaves the order as it is (modelled as equal scores).
ScoresAt(modelScores, digit) ==
    IF IsFinite(digit)
        THEN <<At(modelScores.ldf, digit), At(modelScores.recency, digit),
               At(modelScores.pf, digit)>>
    ELSE <<0, 0, 0>>

\* The penalized model taken from the ranking at the realized digit.
PenalizedAtRealized(modelScores, predictedDigit, finalDigit) ==
    Models[RankModels(ScoresAt(modelScores, finalDigit))[1]]

\* predictedScores[0].model: the model ranked first at the predicted digit.
PenalizedModel(modelScores, predictedDigit, finalDigit) ==
    Models[RankModels(ScoresAt(modelScores, predictedDigit))[1]]

\* The weights backtestAndLearn leaves in an instrument whose activeSignal is
\* present: the WIN or LOSS adjustment, then the clamp of every weight.
backtestAndLearn(instrument) ==
    LET finalPrice == instrument.priceHistory[Len(instrument.priceHistory)]
        finalDigit == LastDigit(finalPrice)
        predictedDigit == instrument.activeSignal.predictedDigit
        modelScores == instrument.activeSignal.modelScores
        wasCorrect == finalDigit = predictedDigit
        adj == 5
        finalScores == RankModels(ScoresAt(modelScores, finalDigit))
        penalized == PenalizedModel(modelScores, predictedDigit, finalDigit)
        w == instrument.weights
        Adjusted(m) ==
            IF wasCorrect
                THEN IF m = Models[finalScores[1]] THEN w[m] + adj * 2
                     ELSE IF m = Models[finalScores[2]] THEN w[m] + adj
                     ELSE w[m]
            ELSE IF m = penalized THEN w[m] - adj * 2
                 ELSE w[m]
    IN  [ldf |-> Clamp(Adjusted("ldf")),
         recency |-> Clamp(Adjusted("recency")),
         pf |-> Clamp(Adjusted("pf"))]

\* ------------------------------------------------------------ state

VARIABLES
    instruments,     \* the registry: symbol -> instrument object
    timers,          \* pending setTimeout callbacks, oldest first
    weightsFile,     \* content of WEIGHTS_FILE
    outbox,          \* what the last handler broadcast, in order
    raised,          \* the exception the last handler threw, or "none"
    ticksDelivered,  \* feed: quotes delivered so far, per symbol
    audit            \* per symbol: signal events broadcast, learner updates applied

vars == <<instruments, timers, weightsFile, outbox, raised, ticksDelivered, audit>>

\* Property names every object inherits from Object.prototype: instruments[k]
\* is truthy for them although k is no key of the registry.
InheritedKeys == {"constructor", "toString"}

RECURSIVE SumOver(_, _)
SumOver(f, S) ==
    IF S = {} THEN 0
    ELSE LET a == CHOOSE a \in S : TRUE IN f[a] + SumOver(f, S \ {a})

\* Date.now(), as a logical clock: the number of quotes delivered so far.
Now == SumOver(ticksDelivered, DOMAIN ticksDelivered)

\* loadWeights(): the parsed file, {} when it is missing or unreadable.
loadWeights(file) ==
    IF file.state = "ok" THEN file.content ELSE [s \in {} |-> INITIAL_WEIGHTS]

\* initializeInstruments(): the registry built from what loadWeights returned.
initializeInstruments(savedWeights) ==
    [symbol \in Symbols |->
        [symbol |-> symbol,
         priceHistory |-> <<>>,
         kalmanState |-> [x |-> null, p |-> 10000],
         weights |-> IF symbol \in DOMAIN savedWeights THEN savedWeights[symbol]
                     ELSE INITIAL_WEIGHTS,
         activeSignal |-> NoSignal,
         lossStreak |-> 0,
         cooldownUntil |-> null]]

\* The defaults written for every instrument instead of its weights.
saveInitialWeights(insts) ==
    [state |-> "ok", content |-> [symbol \in Symbols |-> INITIAL_WEIGHTS]]

\* saveWeights(): the file after a successful write.
saveWeights(insts) ==
    [state |-> "ok", content |-> [symbol \in Symbols |-> insts[symbol].weights]]

\* ------------------------------------------------------------ handlers

\* The open-signal test always failing.
SignalOpenIgnored(instrument) == FALSE

\* if (instrument.activeSignal)
SignalOpen(instrument) == instrument.activeSignal.present

\* A callback queued twice.
setTimeoutTwice(queue, callback) == Append(Append(queue, callback), callback)

\* setTimeout(callback, ENTRY_WINDOW_SECONDS * 1000): every timer has the same
\* delay, so the callbacks run in the order they were queued.
setTimeout(queue, callback) == Append(queue, callback)

\* The signal left in place.
KeepSignal(instrument) == instrument

\* instrument.activeSignal = null
ClearSignal(instrument) == [instrument EXCEPT !.activeSignal = NoSignal]

\* The eviction test firing one element early.
OverflowsEarly(history) == Len(history) >= STABILITY_ANALYSIS_TICKS + 5

\* instrument.priceHistory.length > STABILITY_ANALYSIS_TICKS + 5
Overflows(history) == Len(history) > STABILITY_ANALYSIS_TICKS + 5

\* runAnalysis(symbol) on the instrument as handleTick left it: the
\* instrument afterwards, what is broadcast and whether a deferred evaluation
\* is scheduled.
runAnalysis(instrument, now) ==
    IF SignalOpen(instrument)
        THEN [instrument |-> instrument, events |-> <<>>, schedule |-> FALSE]
    ELSE
    LET prediction == getAIProbabilityPrediction(instrument)
    IN  IF prediction.signal = "CONFIRMED"
            THEN [instrument |->
                     [instrument EXCEPT !.activeSignal =
                         [present |-> TRUE,
                          predictedDigit |-> prediction.digit,
                          modelScores |-> prediction.modelScores,
                          entryTime |-> now]],
                  events |-> <<[type |-> "signal", symbol |-> instrument.symbol,
                                digit |-> prediction.digit,
                                confidence |-> prediction.confidence,
                                models |-> prediction.topModels]>>,
                  schedule |-> TRUE]
        ELSE [instrument |-> instrument,
              events |-> <<[type |-> "status", symbol |-> instrument.symbol,
                            status |-> "ANALYZING", reason |-> prediction.reason]>>,
              schedule |-> FALSE]

\* The instrument after the smoothing and history update of handleTick.
PushTick(instrument, newPrice) ==
    LET state == kalmanUpdate(instrument.kalmanState, newPrice)
        pushed == Append(instrument.priceHistory, state.x)
        kept == IF Overflows(pushed) THEN Tail(pushed) ELSE pushed
    IN  [instrument EXCEPT !.kalmanState = state, !.priceHistory = kept]

\* The tick handled on every instrument of the registry instead of the one
\* the tick names.
handleTickOnAll(symbol, quote) ==
    /\ instruments' = [s \in Symbols |->
                          runAnalysis(PushTick(instruments[s], quote), Now).instrument]
    /\ outbox' = <<[type |-> "tick", symbol |-> symbol, digit |-> LastChar(quote)]>>
    /\ raised' = "none"
    /\ UNCHANGED <<timers, weightsFile, audit>>

\* handleTick(tick) with tick = {symbol, quote}.
handleTick(symbol, quote) ==
    IF symbol \notin Symbols /\ symbol \notin InheritedKeys
        THEN \* !instruments[symbol]: return
             /\ outbox' = <<>>
             /\ raised' = "none"
             /\ UNCHANGED <<instruments, timers, weightsFile, audit>>
    ELSE IF symbol \notin Symbols
        THEN \* instruments[symbol] is an inherited function: it has no
             \* kalmanState, and kalmanUpdate reads state.x of undefined
             /\ outbox' = <<>>
             /\ raised' = "TypeError"
             /\ UNCHANGED <<instruments, timers, weightsFile, audit>>
    ELSE
    LET pushed == PushTick(instruments[symbol], quote)
        tickEvent == [type |-> "tick", symbol |-> symbol, digit |-> LastChar(quote)]
        analysed == runAnalysis(pushed, Now)
    IN  /\ instruments' = [instruments EXCEPT ![symbol] = analysed.instrument]
        /\ outbox' = <<tickEvent>> \o analysed.events
        /\ raised' = "none"
        /\ timers' = IF analysed.schedule
                         THEN setTimeout(timers, [symbol |-> symbol,
                                 entryTime |-> analysed.instrument.activeSignal.entryTime])
                     ELSE timers
        /\ audit' = IF analysed.schedule
                        THEN [audit EXCEPT ![symbol].signalEvents = @ + 1]
                    ELSE audit
        /\ UNCHANGED weightsFile

\* The setTimeout callback of runAnalysis, for the oldest pending timer;
\* writeOk is whether fs.writeFileSync succeeds in saveWeights.
EvaluationFires(writeOk) ==
    /\ timers # <<>>
    /\ LET symbol == Head(timers).symbol
           instrument == instruments[symbol]
       IN  /\ timers' = Tail(timers)
           /\ outbox' = <<>>
           /\ raised' = "none"
           /\ IF SignalOpen(instrument)
                  THEN \E learned \in {backtestAndLearn(instrument)} :
                       LET updated == [instrument EXCEPT !.weights = learned]
                           saved == [instruments EXCEPT ![symbol] = updated]
                       IN  /\ instruments' = [saved EXCEPT ![symbol] = ClearSignal(updated)]
                           /\ weightsFile' = IF writeOk THEN saveWeights(saved) ELSE weightsFile
                           /\ audit' = [audit EXCEPT ![symbol].learnerRuns = @ + 1]
              ELSE UNCHANGED <<instruments, weightsFile, audit>>
    /\ UNCHANGED ticksDelivered

\* ------------------------------------------------------------ environment

\* Ids the feed may name that are no key of the registry.
UnknownIds == {"R_100", "constructor"}

\* The instrument the recorded feed replays quotes for.
Primary == "1HZ100V"

\* Quotes the recorded feed delivers.
MaxTicks == 158

\* Quotes the free feed delivers, over all ids.
MaxFreeTicks == 3

\* The recorded feed: its i-th quote, between 1000.00 and 1000.41, in units
\* of 1/10000.
FeedQuote(i) == 10000000 + ((i * 21) % 41) * 101

\* The free feed: two finite quotes (1000.05, 1000.21) and the non-finite
\* numbers (JSON.parse yields Infinity for 1e999).
FreeQuotes == {10000500, 10002100, NaN, Infinity, NegInfinity}

\* A snapshot file holding the weights w for the primary instrument.
Snapshot(w) == [state |-> "ok", content |-> [s \in {Primary} |-> w]]

\* Contents of WEIGHTS_FILE at startup: missing, unreadable, or a snapshot
\* with weights at the bounds, at the lower bound, or out of [0.5, 2.0].
WeightsFiles ==
    { [state |-> "missing"],
      [state |-> "unreadable"],
      Snapshot([ldf |-> 200, recency |-> 50, pf |-> 200]),
      Snapshot([ldf |-> 50, recency |-> 50, pf |-> 50]),
      Snapshot([ldf |-> 100, recency |-> 30, pf |-> 250]) }

Init ==
    /\ weightsFile \in WeightsFiles
    /\ instruments = initializeInstruments(loadWeights(weightsFile))
    /\ timers = <<>>
    /\ outbox = <<>>
    /\ raised = "none"
    /\ ticksDelivered = [id \in Symbols \cup UnknownIds |-> 0]
    /\ audit = [s \in Symbols |-> [signalEvents |-> 0, learnerRuns |-> 0]]

\* The feed delivers the next recorded quote of the primary instrument.
FeedTick ==
    /\ ticksDelivered[Primary] < MaxTicks
    /\ ticksDelivered' = [ticksDelivered EXCEPT ![Primary] = @ + 1]
    /\ handleTick(Primary, FeedQuote(ticksDelivered[Primary] + 1))

\* The feed delivers any quote for any id.
FreeTick(id, quote) ==
    /\ Now < MaxFreeTicks
    /\ ticksDelivered' = [ticksDelivered EXCEPT ![id] = @ + 1]
    /\ handleTick(id, quote)

Evaluation == \E writeOk \in BOOLEAN : EvaluationFires(writeOk)

Next ==
    \/ FeedTick
    \/ Evaluation

\* The recorded feed on the primary instrument, with the deferred evaluations
\* firing at any time.
Spec == Init /\ [][Next]_vars

\* A pending timer eventually fires.
LiveSpec == Spec /\ WF_vars(Evaluation)

NextFree ==
    \E id \in Symbols \cup UnknownIds : \E quote \in FreeQuotes : FreeTick(id, quote)

\* The first quotes of a free feed: any id, finite or non-finite quotes.
SpecFree == Init /\ [][NextFree]_vars

\* ------------------------------------------------------------ properties

\* A step in which the feed delivered a quote for id.
TickStep(id) == ticksDelivered'[id] = ticksDelivered[id] + 1

\* A step in which the learner updated the weights of symbol s.
LearnStep(s) == audit'[s].learnerRuns = audit[s].learnerRuns + 1

\* Deferred evaluations pending for symbol s.
PendingFor(s) == Cardinality({i \in DOMAIN timers : timers[i].symbol = s})

InRange(w) == 50 <= w /\ w <= 200

\* The realized digit an evaluation of symbol s would read now.
RealizedDigit(s) ==
    LastDigit(instruments[s].priceHistory[Len(instruments[s].priceHistory)])

\* C1: once the learner has updated an instrument, each of its weights ldf,
\* recency and pf lies in [0.5, 2.0], whatever mix of WIN and LOSS updates it
\* has had and whatever weights it started from.
C1_WeightsBoundedAfterUpdate ==
    \A s \in Symbols :
        audit[s].learnerRuns > 0 =>
            /\ InRange(instruments[s].weights.ldf)
            /\ InRange(instruments[s].weights.recency)
            /\ InRange(instruments[s].weights.pf)

\* Two updates have run and left one weight at each end of the range.
C1_Witness ==
    /\ audit[Primary].learnerRuns >= 2
    /\ instruments[Primary].weights.recency = 50
    /\ instruments[Primary].weights.pf = 200

\* C2: a tick for an instrument whose activeSignal is present appends the
\* smoothed value to the history and updates the filter state, leaves
\* activeSignal and the weights as they are, broadcasts only the tick event
\* and schedules nothing; at most one evaluation is pending per instrument.
C2_NoAnalysisWhileSignalOpen ==
    [][\A s \in Symbols :
        /\ PendingFor(s) <= 1
        /\ (instruments[s].activeSignal.present /\ TickStep(s)) =>
            LET old == instruments[s]
                new == instruments'[s]
                n == Len(new.priceHistory)
            IN  /\ new.kalmanState = kalmanUpdate(old.kalmanState, FeedQuote(ticksDelivered'[s]))
                /\ n >= 1 /\ new.priceHistory[n] = new.kalmanState.x
                /\ n = Min(Len(old.priceHistory) + 1, 155)
                /\ new.activeSignal = old.activeSignal
                /\ new.weights = old.weights
                /\ timers' = timers
                /\ Len(outbox') = 1 /\ outbox'[1].type = "tick"
      ]_vars

\* A signal is open and a later tick has been handled since it was opened.
C2_Witness ==
    /\ instruments[Primary].activeSignal.present
    /\ ticksDelivered[Primary] >= instruments[Primary].activeSignal.entryTime + 3
    /\ Len(outbox) = 1

\* C3: an instrument whose activeSignal is present reaches a state where the
\* learner has run for that signal and activeSignal is null again.
C3_SignalEventuallyResolved ==
    \A s \in Symbols :
        instruments[s].activeSignal.present
            ~> (/\ ~instruments[s].activeSignal.present
                /\ audit[s].learnerRuns = audit[s].signalEvents)

\* A second signal has been emitted and resolved after the first one.
C3_Witness ==
    /\ ~instruments[Primary].activeSignal.present
    /\ audit[Primary].signalEvents >= 2
    /\ audit[Primary].learnerRuns = audit[Primary].signalEvents

\* C4: the learner runs exactly once per signal event: its runs equal the
\* signal events, less the one signal still open, for which exactly one
\* evaluation is pending; and every signal gets its run.
C4_LearnerOncePerSignal ==
    /\ [](\A s \in Symbols :
            /\ audit[s].signalEvents = audit[s].learnerRuns
                   + (IF instruments[s].activeSignal.present THEN 1 ELSE 0)
            /\ PendingFor(s) = (IF instruments[s].activeSignal.present THEN 1 ELSE 0))
    /\ \A s \in Symbols : []<>(audit[s].learnerRuns = audit[s].signalEvents)

\* The third signal is open after two signals were resolved.
C4_Witness ==
    /\ instruments[Primary].activeSignal.present
    /\ audit[Primary].signalEvents = 3
    /\ audit[Primary].learnerRuns = 2

\* C5: the history never holds more than 155 values; a tick appends the
\* smoothed value, and at 155 values it drops exactly the oldest one and
\* keeps the others in order.
C5_HistoryBoundedFifo ==
    /\ [](\A s \in Symbols : Len(instruments[s].priceHistory) <= 155)
    /\ [][\A s \in Symbols : TickStep(s) =>
            LET old == instruments[s].priceHistory
                new == instruments'[s].priceHistory
                x == instruments'[s].kalmanState.x
            IN  IF Len(old) < 155 THEN new = Append(old, x)
                ELSE new = Append(Tail(old), x)
         ]_vars

\* The history is full and has evicted at least twice.
C5_Witness ==
    /\ Len(instruments[Primary].priceHistory) = 155
    /\ ticksDelivered[Primary] >= 157

\* The fused score of the digit at position k, from captured model scores.
FusedAt(modelScores, weights, k) ==
      modelScores.ldf[k] * weights.ldf
    + modelScores.recency[k] * weights.recency
    + modelScores.pf[k] * weights.pf

\* C6: a tick that leaves fewer than 100 values in the history broadcasts the
\* tick event and a status event with reason "Calibrating...", sets no
\* activeSignal and schedules nothing; activeSignal is only ever set by a tick
\* that leaves at least 100 values, passes the volatility gate and has the
\* predicted digit's fused score above 1.5 times every other digit's.
C6_SignalGates ==
    [][\A s \in Symbols :
        LET new == instruments'[s]
            digits == [i \in 1..Len(new.priceHistory) |-> LastDigit(new.priceHistory[i])]
        IN  /\ (TickStep(s) /\ Len(new.priceHistory) < 100) =>
                /\ Len(outbox') = 2
                /\ outbox'[1].type = "tick"
                /\ outbox'[2].type = "status"
                /\ outbox'[2].reason = "Calibrating..."
                /\ ~new.activeSignal.present
                /\ timers' = timers
            /\ (~instruments[s].activeSignal.present /\ new.activeSignal.present) =>
                /\ TickStep(s)
                /\ Len(new.priceHistory) >= 100
                /\ getVolatilityCheck(digits)
                /\ Len(outbox') = 2 /\ outbox'[2].type = "signal"
                /\ \A k \in 1..10 : k # new.activeSignal.predictedDigit + 1 =>
                      2 * FusedAt(new.activeSignal.modelScores, new.weights,
                                  new.activeSignal.predictedDigit + 1)
                        > 3 * FusedAt(new.activeSignal.modelScores, new.weights, k)
      ]_vars

\* A tick has just set activeSignal and broadcast the signal event.
C6_Witness ==
    /\ instruments[Primary].activeSignal.present
    /\ Len(outbox) = 2 /\ outbox[2].type = "signal"
    /\ Len(instruments[Primary].priceHistory) >= 100

\* C7: a tick whose id is no key of the registry changes no instrument, no
\* timer and no file, broadcasts nothing and raises no error.
C7_UnknownIdIsNoOp ==
    [][\A id \in UnknownIds : TickStep(id) =>
            /\ UNCHANGED <<instruments, timers, weightsFile, audit>>
            /\ outbox' = <<>>
            /\ raised' = "none"
      ]_vars

\* C8: no non-finite value is ever held in a filter estimate or a history.
C8_NoNonFiniteStored ==
    \A s \in Symbols :
        /\ instruments[s].kalmanState.x = null \/ IsFinite(instruments[s].kalmanState.x)
        /\ \A i \in DOMAIN instruments[s].priceHistory :
              IsFinite(instruments[s].priceHistory[i])

\* C9: a WIN update sets the weight of the model ranked first at the realized
\* digit to clamp(old + 0.10), that of the second to clamp(old + 0.05), and
\* leaves that of the third unchanged.
C9_WinUpdate ==
    [][\A s \in Symbols :
        (LearnStep(s) /\ RealizedDigit(s) = instruments[s].activeSignal.predictedDigit) =>
            LET rank == RankModels(ScoresAt(instruments[s].activeSignal.modelScores,
                                            RealizedDigit(s)))
                old == instruments[s].weights
                new == instruments'[s].weights
            IN  /\ new[Models[rank[1]]] = Clamp(old[Models[rank[1]]] + 10)
                /\ new[Models[rank[2]]] = Clamp(old[Models[rank[2]]] + 5)
                /\ new[Models[rank[3]]] = old[Models[rank[3]]]
      ]_vars

\* C10: a LOSS update sets the weight of the model ranked first at the
\* predicted digit to clamp(old - 0.10) and leaves each other weight that was
\* within [0.5, 2.0] unchanged.
C10_LossUpdate ==
    [][\A s \in Symbols :
        (LearnStep(s) /\ RealizedDigit(s) # instruments[s].activeSignal.predictedDigit) =>
            LET rank == RankModels(ScoresAt(instruments[s].activeSignal.modelScores,
                                            instruments[s].activeSignal.predictedDigit))
                old == instruments[s].weights
                new == instruments'[s].weights
            IN  /\ new[Models[rank[1]]] = Clamp(old[Models[rank[1]]] - 10)
                /\ InRange(old[Models[rank[2]]]) =>
                       new[Models[rank[2]]] = old[Models[rank[2]]]
                /\ InRange(old[Models[rank[3]]]) =>
                       new[Models[rank[3]]] = old[Models[rank[3]]]
      ]_vars

\* One LOSS update has lowered the pf weight from 1.0 to 0.9 and left the
\* other two at 1.0.
C10_Witness ==
    /\ audit[Primary].learnerRuns = 1
    /\ instruments[Primary].weights = [ldf |-> 100, recency |-> 100, pf |-> 90]

\* ------------------------------------------------------------ repeated LOSS updates

\* Learner updates applied in a row to one instrument.
MaxLossRuns == 17

\* Captured score vectors under which the model target is ranked first at
\* digit 3 and last at every other digit.
LossScores(target) ==
    LET Vector(m) == Array([k \in 1..10 |-> IF (k = 4) = (m = target) THEN 1000 ELSE 0])
    IN  [ldf |-> Vector("ldf"), recency |-> Vector("recency"), pf |-> Vector("pf")]

\* An instrument at evaluation time: its signal predicted digit 3 and the
\* realized digit, the last digit of 1000.07, is 7.
LossInstrument(instrument, target) ==
    [instrument EXCEPT
        !.priceHistory = <<10000700>>,
        !.kalmanState = [x |-> 10000700, p |-> 910],
        !.activeSignal = [present |-> TRUE, predictedDigit |-> 3,
                          modelScores |-> LossScores(target), entryTime |-> 0]]

\* The primary instrument starts with any weight in [0.5, 2.0] for the model
\* its open signal ranks first at the predicted digit.
InitLoss ==
    /\ \E target \in {"ldf", "recency", "pf"} : \E w0 \in 50..200 :
          /\ weightsFile = Snapshot([INITIAL_WEIGHTS EXCEPT ![target] = w0])
          /\ instruments =
                [initializeInstruments(loadWeights(weightsFile)) EXCEPT
                    ![Primary] = LossInstrument(@, target)]
    /\ timers = <<>>
    /\ outbox = <<>>
    /\ raised = "none"
    /\ ticksDelivered = [id \in Symbols \cup UnknownIds |-> 0]
    /\ audit = [s \in Symbols |-> [signalEvents |-> 0, learnerRuns |-> 0]]

\* backtestAndLearn applied once more to the same captured scores and the
\* same realized digit: one more LOSS penalizing the same model.
LossAgain ==
    /\ audit[Primary].learnerRuns < MaxLossRuns
    /\ instruments' = [instruments EXCEPT
                          ![Primary].weights = backtestAndLearn(instruments[Primary])]
    /\ audit' = [audit EXCEPT ![Primary].learnerRuns = @ + 1]
    /\ UNCHANGED <<timers, weightsFile, outbox, raised, ticksDelivered>>

SpecLoss == InitLoss /\ [][LossAgain]_vars

\* The model ranked first at the predicted digit of the open signal of s.
TopAtPredicted(s) ==
    Models[RankModels(ScoresAt(instruments[s].activeSignal.modelScores,
                               instruments[s].activeSignal.predictedDigit))[1]]

\* C11: LOSS updates that each penalize the same model, from any weight in
\* [0.5, 2.0], have brought that model's weight to exactly 0.5 after 15
\* updates at the latest, each update lowering it by 0.10 down to the clamp,
\* and an update at 0.5 leaves it at 0.5.
C11_RepeatedLossReachesFloor ==
    /\ [](audit[Primary].learnerRuns >= 15 =>
            instruments[Primary].weights[TopAtPredicted(Primary)] = 50)
    /\ [][LearnStep(Primary) =>
            LET m == TopAtPredicted(Primary)
                old == instruments[Primary].weights[m]
                new == instruments'[Primary].weights[m]
            IN  /\ RealizedDigit(Primary) # instruments[Primary].activeSignal.predictedDigit
                /\ new = Max(50, old - 10)
                /\ old = 50 => new = 50
         ]_vars

\* The pf weight loaded as 2.0 is at 0.5 after the fifteenth LOSS.
C11_Witness ==
    /\ weightsFile.content[Primary].pf = 200
    /\ TopAtPredicted(Primary) = "pf"
    /\ audit[Primary].learnerRuns = 15
    /\ instruments[Primary].weights.pf = 50

\* ------------------------------------------------------------ two instruments

\* A second instrument receiving quotes while the primary one runs.
Other == "1HZ75V"

\* Quotes delivered to the primary instrument when two instruments run.
MaxPairTicks == 116

\* Quotes delivered to the second instrument.
MaxOtherTicks == 3

\* The i-th quote of the second instrument, between 500.13 and 500.39.
OtherQuote(i) == 5000000 + i * 1300

\* The i-th quote the feed delivers for symbol s.
PairQuote(s, i) == IF s = Primary THEN FeedQuote(i) ELSE OtherQuote(i)

\* The feed delivers the next quote of symbol s.
PairTick(s) ==
    /\ ticksDelivered[s] < (IF s = Primary THEN MaxPairTicks ELSE MaxOtherTicks)
    /\ ticksDelivered' = [ticksDelivered EXCEPT ![s] = @ + 1]
    /\ handleTick(s, PairQuote(s, ticksDelivered[s] + 1))

NextPair ==
    \/ PairTick(Primary)
    \/ PairTick(Other)
    \/ Evaluation

\* Two instruments fed in any interleaving, evaluations firing at any time.
SpecPair == Init /\ [][NextPair]_vars

\* An instrument without the wall-clock reading its open signal carries.
Timeless(instrument) ==
    IF instrument.activeSignal.present
        THEN [instrument EXCEPT !.activeSignal.entryTime = 0]
    ELSE instrument

\* handleTick on one instrument object alone.
TickAlone(instrument, quote) == runAnalysis(PushTick(instrument, quote), 0).instrument

\* The setTimeout callback on one instrument object alone.
EvaluateAlone(instrument) ==
    IF SignalOpen(instrument)
        THEN ClearSignal([instrument EXCEPT !.weights = backtestAndLearn(instrument)])
    ELSE instrument

\* The instrument s after its first n quotes, processed with no other
\* instrument in the run and no weights file.
RECURSIVE AloneAfter(_, _)
AloneAfter(s, n) ==
    IF n = 0 THEN initializeInstruments(loadWeights([state |-> "missing"]))[s]
    ELSE TickAlone(AloneAfter(s, n - 1), PairQuote(s, n))

\* The step runs the deferred evaluation queued for symbol s.
EvaluationStep(s) ==
    /\ timers # <<>>
    /\ timers' = Tail(timers)
    /\ Head(timers).symbol = s

\* C12: an event of one instrument (a tick, or a deferred evaluation with its
\* learning update) leaves every other instrument's object as it is and
\* changes its own instrument as that event does on that object alone; the
\* second instrument, interleaved in any way with the ticks, signals and
\* evaluations of the primary one, is in the state its own quotes give alone.
C12_InstrumentsIndependent ==
    /\ [](Timeless(instruments[Other]) = AloneAfter(Other, ticksDelivered[Other]))
    /\ [][\A a \in Symbols :
            /\ (TickStep(a) \/ EvaluationStep(a)) =>
                  \A b \in Symbols \ {a} : instruments'[b] = instruments[b]
            /\ TickStep(a) =>
                  Timeless(instruments'[a]) =
                      Timeless(TickAlone(instruments[a], PairQuote(a, ticksDelivered'[a])))
            /\ EvaluationStep(a) =>
                  instruments'[a] = EvaluateAlone(instruments[a])
         ]_vars

\* The second instrument has received all its quotes and the primary one has
\* had a signal resolved and a later signal opened.
C12_Witness ==
    /\ ticksDelivered[Other] = MaxOtherTicks
    /\ Len(instruments[Other].priceHistory) = MaxOtherTicks
    /\ audit[Primary].learnerRuns >= 1
    /\ instruments[Primary].activeSignal.present

\* ------------------------------------------------------------ scoring a window

\* Digits the scored windows are made of.
DigitPool == {0, 3, 7, 9}

\* Length of the longest scored window.
MaxWindowLen == 4

\* Every window of at most MaxWindowLen digits of the pool.
Windows == UNION {[1..n -> DigitPool] : n \in 0..MaxWindowLen}

\* A window of digits is handed to the three scoring models.
InitScores ==
    /\ \E digits \in Windows : outbox = <<[type |-> "window", digits |-> digits]>>
    /\ weightsFile = [state |-> "missing"]
    /\ instruments = initializeInstruments(loadWeights(weightsFile))
    /\ timers = <<>>
    /\ raised = "none"
    /\ ticksDelivered = [id \in Symbols \cup UnknownIds |-> 0]
    /\ audit = [s \in Symbols |-> [signalEvents |-> 0, learnerRuns |-> 0]]

\* The three models score the window.
Score ==
    /\ outbox[1].type = "window"
    /\ outbox' = <<[type |-> "scores",
                    digits |-> outbox[1].digits,
                    ldf |-> getLDFScores(outbox[1].digits),
                    recency |-> getRecencyScores(outbox[1].digits),
                    pf |-> getPairingFrequencyScores(outbox[1].digits)]>>
    /\ UNCHANGED <<instruments, timers, weightsFile, raised, ticksDelivered, audit>>

SpecScores == InitScores /\ [][Score]_vars

\* A window has been scored.
Scored == outbox[1].type = "scores"

\* Occurrences of digit d in a window.
CountOf(digits, d) == Cardinality({i \in DOMAIN digits : digits[i] = d})

\* C13: for a non-empty window, getLDFScores gives each digit d the score
\* (maxCount - count[d]) * 1.5: no score is negative, every digit whose count
\* is the maximum scores 0, and an absent digit scores maxCount * 1.5.
C13_LdfScores ==
    (Scored /\ outbox[1].digits # <<>>) =>
        LET digits == outbox[1].digits
            maxCount == MaxOf({CountOf(digits, d) : d \in Digits})
        IN  \A d \in Digits :
                /\ 2 * At(outbox[1].ldf, d) = (maxCount - CountOf(digits, d)) * 3000
                /\ At(outbox[1].ldf, d) >= 0
                /\ CountOf(digits, d) = maxCount => At(outbox[1].ldf, d) = 0
                /\ CountOf(digits, d) = 0 => 2 * At(outbox[1].ldf, d) = maxCount * 3000

\* Two tied modes score 0 and an absent digit scores 2 * 1.5.
C13_Witness ==
    /\ Scored
    /\ outbox[1].digits = <<3, 3, 7, 7>>
    /\ At(outbox[1].ldf, 3) = 0
    /\ At(outbox[1].ldf, 7) = 0
    /\ At(outbox[1].ldf, 9) = 3000

\* C14: the largest entry of the vector getPairingFrequencyScores returns is
\* exactly 30 when the last digit of the window also occurs at a non-final
\* position; otherwise all ten scores are 0.
C14_PairingMaxIsThirty ==
    Scored =>
        LET digits == outbox[1].digits
            n == Len(digits)
        IN  IF \E i \in 1..(n - 1) : digits[i] = digits[n]
                THEN MaxOf({At(outbox[1].pf, d) : d \in Digits}) = 30000
            ELSE \A d \in Digits : At(outbox[1].pf, d) = 0

\* The last digit 3 was followed once by 7 and once by 3: both score 30.
C14_Witness ==
    /\ Scored
    /\ outbox[1].digits = <<3, 7, 3, 3>>
    /\ At(outbox[1].pf, 7) = 30000
    /\ At(outbox[1].pf, 3) = 30000
    /\ At(outbox[1].pf, 9) = 0

\* C15: getRecencyScores gives a digit that is absent from the window exactly
\* 100, the digit at the last position 0, and any other present digit the
\* number of positions from the end of the window back to its last occurrence.
C15_RecencyScores ==
    Scored =>
        LET digits == outbox[1].digits
            n == Len(digits)
        IN  \A d \in Digits :
                IF \A i \in 1..n : digits[i] # d
                    THEN At(outbox[1].recency, d) = 100 * 1000
                ELSE IF digits[n] = d
                    THEN At(outbox[1].recency, d) = 0
                ELSE \E i \in 1..n :
                        /\ digits[i] = d
                        /\ \A j \in (i + 1)..n : digits[j] # d
                        /\ At(outbox[1].recency, d) = (n - i) * 1000

\* 9 is last, 3 is one position back, 7 three positions back, 0 is absent.
C15_Witness ==
    /\ Scored
    /\ outbox[1].digits = <<7, 3, 3, 9>>
    /\ At(outbox[1].recency, 9) = 0
    /\ At(outbox[1].recency, 3) = 1000
    /\ At(outbox[1].recency, 7) = 3000
    /\ At(outbox[1].recency, 0) = 100000

\* ------------------------------------------------------------ a drifting feed

\* Quotes the drifting feed delivers.
MaxDriftTicks == 103

\* The drifting feed: 1000.03 once, then 1000.07 for good.
DriftQuote(i) == IF i = 1 THEN 10000300 ELSE 10000700

\* The feed delivers the next drifting quote of the primary instrument.
DriftTick ==
    /\ ticksDelivered[Primary] < MaxDriftTicks
    /\ ticksDelivered' = [ticksDelivered EXCEPT ![Primary] = @ + 1]
    /\ handleTick(Primary, DriftQuote(ticksDelivered[Primary] + 1))

SpecDrift == Init /\ [][DriftTick]_vars

\* lastDigits: the last digits of the history of s.
HistoryDigits(s) ==
    Array([i \in 1..Len(instruments[s].priceHistory) |->
              LastDigit(instruments[s].priceHistory[i])])

\* C19: in a history the pipeline scores (100 to 155 values, no open signal,
\* volatility gate passed), no digit present in it has a recency score above
\* that of a digit absent from it.
C19_AbsentDigitScoresHighest ==
    \A s \in Symbols :
        LET digits == HistoryDigits(s)
            scores == getRecencyScores(digits)
            Present(d) == \E i \in 1..Len(digits) : digits[i] = d
        IN  (/\ Len(digits) >= ANALYSIS_TICKS
             /\ ~instruments[s].activeSignal.present
             /\ getVolatilityCheck(digits)) =>
                \A d \in Digits : \A e \in Digits :
                    (Present(d) /\ ~Present(e)) => At(scores, d) <= At(scores, e)

\* ------------------------------------------------------------ startup, timers, persistence

\* C16: in every state, the one right after initialization included, every
\* weight of every instrument lies in [0.5, 2.0], whatever the snapshot held.
C16_WeightsAlwaysBounded ==
    \A s \in Symbols :
        /\ InRange(instruments[s].weights.ldf)
        /\ InRange(instruments[s].weights.recency)
        /\ InRange(instruments[s].weights.pf)

\* C17: activeSignal is present exactly when one evaluation is pending for
\* the instrument, that evaluation being the one queued when this signal was
\* confirmed; an evaluation that fires finds that very signal and clears it.
C17_SignalMatchesItsTimer ==
    /\ [](\A s \in Symbols :
            IF instruments[s].activeSignal.present
                THEN /\ PendingFor(s) = 1
                     /\ \E i \in DOMAIN timers :
                           /\ timers[i].symbol = s
                           /\ timers[i].entryTime = instruments[s].activeSignal.entryTime
            ELSE PendingFor(s) = 0)
    /\ [][\A s \in Symbols : EvaluationStep(s) =>
            /\ instruments[s].activeSignal.present
            /\ Head(timers).entryTime = instruments[s].activeSignal.entryTime
            /\ ~instruments'[s].activeSignal.present
            /\ LearnStep(s)
         ]_vars

\* A later signal is open, after an earlier one was resolved, with its own
\* evaluation as the only pending one.
C17_Witness ==
    /\ audit[Primary].learnerRuns >= 1
    /\ instruments[Primary].activeSignal.present
    /\ Len(timers) = 1
    /\ timers[1].entryTime = instruments[Primary].activeSignal.entryTime
    /\ timers[1].entryTime > ANALYSIS_TICKS

\* C18: resolving a signal updates the weights in memory, clears activeSignal
\* and raises nothing, whether or not the write succeeds; a successful write
\* leaves a snapshot holding the in-memory weights of every instrument, a
\* failed one leaves the file as it was.
C18_SaveAfterResolve ==
    [][\A s \in Symbols : LearnStep(s) =>
            /\ instruments'[s].weights = backtestAndLearn(instruments[s])
            /\ ~instruments'[s].activeSignal.present
            /\ raised' = "none"
            /\ \/ /\ weightsFile'.state = "ok"
                  /\ DOMAIN weightsFile'.content = Symbols
                  /\ \A t \in Symbols : weightsFile'.content[t] = instruments'[t].weights
               \/ weightsFile' = weightsFile
      ]_vars

\* Every write so far has failed (the file is still missing) and the
\* pipeline has gone on to resolve a second signal with updated weights.
C18_Witness ==
    /\ weightsFile.state = "missing"
    /\ audit[Primary].learnerRuns >= 2
    /\ instruments[Primary].weights # INITIAL_WEIGHTS
    /\ ~instruments[Primary].activeSignal.present

\* C20: after the first observation of an instrument the estimate is that
\* observation and errorCovariance is 1.
C20_FirstObservationCovariance ==
    \A s \in Symbols :
        ticksDelivered[s] = 1 =>
            /\ instruments[s].kalmanState.x = FeedQuote(1)
            /\ instruments[s].kalmanState.p = 10000
====
